---- MODULE Spec2Model ----
(***************************************************************************)
(* Flow table of src/src/main.rs: two prefix indexes (src_map, dst_map), an *)
(* exact-match table (flow_map), rule insertion (add_flow) and the four     *)
(* step classification cascade (match_flow).                                *)
(*                                                                          *)
(* Addresses are AddrBits wide instead of 32 bits; every mask computation   *)
(* of the source is kept, with MaxMask standing for 4294967295.             *)
(***************************************************************************)
EXTENDS Integers, Naturals, FiniteSets, Sequences, TLC

VARIABLES
    src_map,       \* FlowTable::src_map: wildcard mask -> set of (net, port)
    dst_map,       \* FlowTable::dst_map: wildcard mask -> set of (net, port)
    flow_map,      \* FlowTable::flow_map: 6-tuple key -> action
    strong_count,  \* owners of the three Rc maps
    op,            \* the call that returned last: "add_flow", "match_flow";
                   \* "idle" once the caller is done with it
    arg,           \* the argument of that call
    ret,           \* the Option<Action> match_flow returned
    replaced,      \* what flow_map.insert returned inside add_flow
    inserted       \* history: rule as given to Flow::new -> its last action

vars == <<src_map, dst_map, flow_map, strong_count, op, arg, ret, replaced, inserted>>

(* ------------------------------ bounds --------------------------------- *)

\* width of an address in bits (u32 in the source)
AddrBits == 2
\* addresses of rules and packets are drawn from 0..MaxAddr
MaxAddr == 1
\* ports of rules and packets are drawn from 0..MaxPort (u16 in the source)
MaxPort == 1
\* number of distinct rule keys a table may hold
MaxFlows == 2

(* ------------------------------ values --------------------------------- *)

\* the all-ones mask, 4294967295 in the source
MaxMask == 2^AddrBits - 1

Addrs == 0..MaxAddr
Ports == 0..MaxPort
PrefixLens == 0..AddrBits

\* enum Action { Deny, Allow(String) }
Actions == {"Deny", "Allow(int1)"}

\* Option::None
None == "None"

\* u32 bitwise and
RECURSIVE BitAnd(_, _)
BitAnd(a, b) ==
    IF a = 0 \/ b = 0 THEN 0
    ELSE (a % 2) * (b % 2) + 2 * BitAnd(a \div 2, b \div 2)

\* Ipv4Net::netmask(): the len highest bits set
Netmask(len) == MaxMask - (2^(AddrBits - len) - 1)

\* Ipv4Net::addr(): the address as it was given, host bits included
Addr(net) == net.addr

\* an Ipv4Net value: an address and a prefix length
Ipv4Nets == [addr : Addrs, len : PrefixLens]

\* the arguments of Flow::new
FlowArgs == [src_net : Ipv4Nets, src_port : Ports,
             dst_net : Ipv4Nets, dst_port : Ports, action : Actions]

\* Flow::new
Flow_new(a) ==
    [src_net  |-> Addr(a.src_net),
     src_mask |-> Netmask(a.src_net.len),
     src_port |-> a.src_port,
     dst_net  |-> Addr(a.dst_net),
     dst_mask |-> Netmask(a.dst_net.len),
     dst_port |-> a.dst_port,
     action   |-> a.action]

\* struct Packet
Packets == [src_ip : Addrs, dst_ip : Addrs, src_port : Ports, dst_port : Ports]

\* the key of flow_map built at the end of add_flow
FlowKey(flow) ==
    <<flow.src_net, flow.src_mask, flow.src_port,
      flow.dst_net, flow.dst_mask, flow.dst_port>>

(* ------------------------------ add_flow ------------------------------- *)

\* the get_mut / insert on one prefix index: the inner HashMap maps every
\* (net, port) to true, so it is kept as the set of its keys
index_insert(map, mask, net, port) ==
    LET key == MaxMask - mask
    IN  IF key \in DOMAIN map
        THEN [map EXCEPT ![key] = @ \cup {<<net, port>>}]
        ELSE map @@ (key :> {<<net, port>>})

\* a table that keeps the first action of a key (entry(key).or_insert(action))
flow_map_insert_keep_first(fm, flow) ==
    LET k == <<flow.src_net, flow.src_mask, flow.src_port,
               flow.dst_net, flow.dst_mask, flow.dst_port>>
    IN  IF k \in DOMAIN fm THEN fm ELSE fm @@ (k :> flow.action)

\* flow_map.insert(key, action): insert or overwrite
flow_map_insert(fm, flow) ==
    LET k == FlowKey(flow)
    IN  IF k \in DOMAIN fm
        THEN [fm EXCEPT ![k] = flow.action]
        ELSE fm @@ (k :> flow.action)

\* the value HashMap::insert hands back: the action it replaced, if any
flow_map_replaced(fm, flow) ==
    IF FlowKey(flow) \in DOMAIN fm THEN fm[FlowKey(flow)] ELSE None

(* ------------------------------ match_flow ----------------------------- *)

\* an iteration that starts at the largest key, the shortest prefix
Max(S) == CHOOSE x \in S : \A y \in S : x >= y

\* the first key of the BTreeMap iteration: the smallest wildcard mask, the
\* longest prefix
Min(S) == CHOOSE x \in S : \A y \in S : x <= y

\* a lookup by the masked address alone, whatever port was registered
RECURSIVE scan_any_port(_, _, _, _)
scan_any_port(ip, port, map, keys) ==
    IF keys = {} THEN "None"
    ELSE LET mask     == CHOOSE x \in keys : \A y \in keys : x <= y
             mask_bin == (2^AddrBits - 1) - mask
             masked   == BitAnd(ip, mask_bin)
             found    == {e \in map[mask] : e[1] = masked}
         IN  IF found # {}
             THEN <<masked, mask_bin, (CHOOSE e \in found : TRUE)[2]>>
             ELSE scan_any_port(ip, port, map, keys \ {mask})

\* the loop of get_net_port over the BTreeMap, keys ascending
RECURSIVE scan(_, _, _, _)
scan(ip, port, map, keys) ==
    IF keys = {} THEN None
    ELSE LET mask     == Min(keys)
             mask_bin == MaxMask - mask
             masked   == BitAnd(ip, mask_bin)
         IN  IF <<masked, port>> \in map[mask]
             THEN <<masked, mask_bin, port>>
             ELSE scan(ip, port, map, keys \ {mask})

get_net_port(ip, port, map) == scan(ip, port, map, DOMAIN map)

\* flow_map.get(..).cloned()
flow_map_get(fm, s, d) ==
    LET k == <<s[1], s[2], s[3], d[1], d[2], d[3]>>
    IN  IF k \in DOMAIN fm THEN fm[k] ELSE None

\* a cascade without its last step, wildcard source and wildcard destination
match_key_without_last_step(sm, dm, packet) ==
    LET src_net_specific == get_net_port(packet.src_ip, packet.src_port, sm)
        dst_net_specific == get_net_port(packet.dst_ip, packet.dst_port, dm)
        src_net_0        == get_net_port(packet.src_ip, 0, sm)
        dst_net_0        == get_net_port(packet.dst_ip, 0, dm)
    IN  IF src_net_specific # None /\ dst_net_specific # None
        THEN <<src_net_specific, dst_net_specific>>
        ELSE IF src_net_0 # None /\ dst_net_specific # None
        THEN <<src_net_0, dst_net_specific>>
        ELSE IF src_net_specific # None /\ dst_net_0 # None
        THEN <<src_net_specific, dst_net_0>>
        ELSE None

\* the cascade of match_flow: the pair of index entries of the first step
\* whose two address lookups both resolve; that step returns
match_key(sm, dm, packet) ==
    LET src_net_specific == get_net_port(packet.src_ip, packet.src_port, sm)
        dst_net_specific == get_net_port(packet.dst_ip, packet.dst_port, dm)
        src_net_0        == get_net_port(packet.src_ip, 0, sm)
        dst_net_0        == get_net_port(packet.dst_ip, 0, dm)
    IN  IF src_net_specific # None /\ dst_net_specific # None
        THEN <<src_net_specific, dst_net_specific>>
        ELSE IF src_net_0 # None /\ dst_net_specific # None
        THEN <<src_net_0, dst_net_specific>>
        ELSE IF src_net_specific # None /\ dst_net_0 # None
        THEN <<src_net_specific, dst_net_0>>
        ELSE IF src_net_0 # None /\ dst_net_0 # None
        THEN <<src_net_0, dst_net_0>>
        ELSE None

\* match_flow: the step that returns hands back flow_map.get(..).cloned(),
\* a hit or a miss; None when no step has both lookups resolved
match_flow(sm, dm, fm, packet) ==
    LET k == match_key(sm, dm, packet)
    IN  IF k = None THEN None ELSE flow_map_get(fm, k[1], k[2])

(* ------------------------------ the table ------------------------------ *)

\* the rule as the caller gave it, without its action
RuleOf(a) == [src_net |-> a.src_net, src_port |-> a.src_port,
              dst_net |-> a.dst_net, dst_port |-> a.dst_port]

EmptyMap == [k \in {} |-> {}]

\* FlowTable::new
Init ==
    /\ src_map = EmptyMap
    /\ dst_map = EmptyMap
    /\ flow_map = EmptyMap
    /\ strong_count = 1
    /\ op = "idle"
    /\ arg = None
    /\ ret = None
    /\ replaced = None
    /\ inserted = EmptyMap

\* flow_table.add_flow(Flow::new(..)); Rc::get_mut(..).unwrap() needs the
\* table to be the only owner of its three maps
AddFlow(a) ==
    /\ op = "idle"
    /\ strong_count = 1
    /\ src_map' = index_insert(src_map, Flow_new(a).src_mask,
                               Flow_new(a).src_net, Flow_new(a).src_port)
    /\ dst_map' = index_insert(dst_map, Flow_new(a).dst_mask,
                               Flow_new(a).dst_net, Flow_new(a).dst_port)
    /\ flow_map' = flow_map_insert(flow_map, Flow_new(a))
    /\ replaced' = flow_map_replaced(flow_map, Flow_new(a))
    /\ inserted' = IF RuleOf(a) \in DOMAIN inserted
                   THEN [inserted EXCEPT ![RuleOf(a)] = a.action]
                   ELSE inserted @@ (RuleOf(a) :> a.action)
    /\ op' = "add_flow"
    /\ arg' = a
    /\ ret' = None
    /\ UNCHANGED strong_count

\* a classification that registers the packet's source as a host entry of
\* the source index
MatchFlow_learning(packet) ==
    /\ op = "idle"
    /\ ret' = match_flow(src_map, dst_map, flow_map, packet)
    /\ src_map' = index_insert(src_map, MaxMask, packet.src_ip, packet.src_port)
    /\ op' = "match_flow"
    /\ arg' = packet
    /\ replaced' = None
    /\ UNCHANGED <<dst_map, flow_map, strong_count, inserted>>

\* flow_table.match_flow(packet): the three Rc clones handed to get_net_port
\* are dropped before the call returns
MatchFlow(packet) ==
    /\ op = "idle"
    /\ ret' = match_flow(src_map, dst_map, flow_map, packet)
    /\ op' = "match_flow"
    /\ arg' = packet
    /\ replaced' = None
    /\ UNCHANGED <<src_map, dst_map, flow_map, strong_count, inserted>>

\* the caller is done with the last call: its argument and its result go
\* out of scope (the end of a loop body of main)
Drop ==
    /\ op # "idle"
    /\ op' = "idle"
    /\ arg' = None
    /\ ret' = None
    /\ replaced' = None
    /\ UNCHANGED <<src_map, dst_map, flow_map, strong_count, inserted>>

\* the rules a call of add_flow may bring: any rule while the table holds
\* fewer than MaxFlows keys, then only rules whose key it holds already
NextArgs ==
    IF Cardinality(DOMAIN flow_map) < MaxFlows
    THEN FlowArgs
    ELSE {[src_net |-> r.src_net, src_port |-> r.src_port,
           dst_net |-> r.dst_net, dst_port |-> r.dst_port, action |-> act] :
          r \in DOMAIN inserted, act \in Actions}

Next ==
    \/ \E a \in NextArgs : AddFlow(a)
    \/ \E packet \in Packets : MatchFlow(packet)
    \/ Drop

Spec == Init /\ [][Next]_vars

(* ------------------------------ vocabulary of the properties ----------- *)

\* the rules given to add_flow so far
Rules == DOMAIN inserted

\* the last call was match_flow: arg is its packet, ret its result
Matched == op = "match_flow"

\* ip agrees with the address of net on the first net.len bits
InPrefix(ip, net) ==
    ip \div 2^(AddrBits - net.len) = net.addr \div 2^(AddrBits - net.len)

\* a port pattern is the wildcard 0 or the port itself
PortMatches(pattern, port) == pattern = 0 \/ pattern = port

\* both addresses of packet p lie in the prefixes of rule r
Contains(r, p) == InPrefix(p.src_ip, r.src_net) /\ InPrefix(p.dst_ip, r.dst_net)

\* rule r covers packet p
Covers(r, p) ==
    /\ Contains(r, p)
    /\ PortMatches(r.src_port, p.src_port)
    /\ PortMatches(r.dst_port, p.dst_port)

\* the key flow_map holds for rule r
KeyOfRule(r) ==
    <<r.src_net.addr, Netmask(r.src_net.len), r.src_port,
      r.dst_net.addr, Netmask(r.dst_net.len), r.dst_port>>

\* the key the returning step of match_flow looks up, the empty tuple if no
\* step returns
ResolvedKey(sm, dm, p) ==
    LET k == match_key(sm, dm, p)
    IN  IF k = None THEN <<>>
        ELSE <<k[1][1], k[1][2], k[1][3], k[2][1], k[2][2], k[2][3]>>

(* ------------------------------ C1 ------------------------------------- *)

\* e has an explicit port where w has the wildcard, the other side's port
\* pattern being the same in both
ExplicitVsWildcard(e, w) ==
    \/ e.src_port # 0 /\ w.src_port = 0 /\ e.dst_port = w.dst_port
    \/ e.dst_port # 0 /\ w.dst_port = 0 /\ e.src_port = w.src_port

\* C1: port-specificity precedence. In a table built from two rules with the
\* same source and destination prefixes and different actions, one with an
\* explicit port where the other has the wildcard, match_flow on a packet
\* inside the prefixes whose ports match the explicit rule returns the
\* explicit rule's action.
C1_PortSpecificity ==
    Matched =>
        \A e \in Rules : \A w \in Rules :
            ( /\ Rules = {e, w}
              /\ e.src_net = w.src_net /\ e.dst_net = w.dst_net
              /\ inserted[e] # inserted[w]
              /\ ExplicitVsWildcard(e, w)
              /\ Covers(e, arg) )
            => ret = inserted[e]

(* ------------------------------ C2 ------------------------------------- *)

IsCatchAll(r) ==
    /\ r.src_net = [addr |-> 0, len |-> 0]
    /\ r.dst_net = [addr |-> 0, len |-> 0]

\* C2: longest prefix wins. In a table built from a catch-all rule and one
\* rule with longer source and destination prefixes, the same port patterns
\* and a different action, match_flow on a packet the specific rule covers
\* returns the specific rule's action.
C2_LongestPrefixWins ==
    Matched =>
        \A c \in Rules : \A s \in Rules :
            ( /\ Rules = {c, s}
              /\ IsCatchAll(c)
              /\ s.src_net.len > 0 /\ s.dst_net.len > 0
              /\ s.src_port = c.src_port /\ s.dst_port = c.dst_port
              /\ inserted[s] # inserted[c]
              /\ Covers(s, arg) )
            => ret = inserted[s]

(* ------------------------------ C3 ------------------------------------- *)

\* rule r names one host on each side, with explicit ports
IsExactHost(r) ==
    /\ r.src_net.len = AddrBits /\ r.dst_net.len = AddrBits
    /\ r.src_port # 0 /\ r.dst_port # 0

\* the packet whose addresses and ports are those of rule r
PacketOf(r) ==
    [src_ip |-> r.src_net.addr, dst_ip |-> r.dst_net.addr,
     src_port |-> r.src_port, dst_port |-> r.dst_port]

\* C3: exact-host priority. Whatever the table holds, match_flow on the
\* packet that equals a rule with full-length prefixes and explicit ports
\* returns the action last inserted for that rule.
C3_ExactHostPriority ==
    Matched =>
        \A r \in Rules :
            (IsExactHost(r) /\ arg = PacketOf(r)) => ret = inserted[r]

\* an exact-host rule was matched while another rule with another action
\* covers the same packet
C3_Witness ==
    /\ Matched
    /\ \E r \in Rules : \E o \in Rules :
          /\ IsExactHost(r) /\ arg = PacketOf(r)
          /\ o # r /\ Covers(o, arg) /\ inserted[o] # inserted[r]
          /\ ret = inserted[r]

(* ------------------------------ C4 ------------------------------------- *)

\* the last call was add_flow with a rule whose key the table held already,
\* with another action
Upserted ==
    /\ op = "add_flow"
    /\ replaced # None
    /\ replaced # arg.action

\* C4: upsert, last write wins. An add_flow whose key the table holds
\* already leaves both prefix indexes and the key set of the exact table as
\* they were, the entry of the key holds the new action, and every packet
\* match_flow resolves to that key gets the new action.
C4_UpsertLastWriteWins ==
    [][ (op' = "add_flow" /\ RuleOf(arg') \in Rules) =>
            /\ src_map' = src_map
            /\ dst_map' = dst_map
            /\ DOMAIN flow_map' = DOMAIN flow_map
            /\ flow_map'[KeyOfRule(RuleOf(arg'))] = arg'.action
            /\ \A p \in Packets :
                 ResolvedKey(src_map', dst_map', p) = KeyOfRule(RuleOf(arg'))
                 => match_flow(src_map', dst_map', flow_map', p) = arg'.action
      ]_vars

\* a rule was inserted again with another action, and some packet is
\* resolved to its key
C4_Witness ==
    /\ Upserted
    /\ flow_map[KeyOfRule(RuleOf(arg))] = arg.action
    /\ \E p \in Packets :
          /\ ResolvedKey(src_map, dst_map, p) = KeyOfRule(RuleOf(arg))
          /\ match_flow(src_map, dst_map, flow_map, p) = arg.action

(* ------------------------------ C5 ------------------------------------- *)

\* C5: no match returns none. match_flow returns None for a packet no
\* inserted rule covers (so for every packet on the empty table), and an
\* action it returns is the action last inserted for a rule that covers the
\* packet.
C5_NoMatchReturnsNone ==
    Matched =>
        /\ (\A r \in Rules : ~Covers(r, arg)) => ret = None
        /\ ret # None => \E r \in Rules : Covers(r, arg) /\ inserted[r] = ret

\* a packet no rule of a table of two rules covers, although one rule
\* contains its addresses, was classified
C5_Witness ==
    /\ Matched
    /\ Cardinality(Rules) = 2
    /\ \E r \in Rules : Contains(r, arg)
    /\ \A r \in Rules : ~Covers(r, arg)
    /\ ret = None

(* ------------------------------ C6 ------------------------------------- *)

\* every inserted rule has the wildcard port on both sides
AllWildcard == \A r \in Rules : r.src_port = 0 /\ r.dst_port = 0

\* the packets with the addresses of p
SameAddresses(p) ==
    {q \in Packets : q.src_ip = p.src_ip /\ q.dst_ip = p.dst_ip}

\* match_flow gives every packet with the addresses of the last one the
\* result of the last one
PortsIrrelevant ==
    \A q \in SameAddresses(arg) :
        match_flow(src_map, dst_map, flow_map, q) = ret

\* C6 as stated: with wildcard-port rules only, the packets of one address
\* pair all get the same result, and it is the action of a rule whose
\* prefixes contain the addresses.
C6_WildcardMatchesAnyPort_Original ==
    (Matched /\ AllWildcard) =>
        /\ PortsIrrelevant
        /\ (\E r \in Rules : Contains(r, arg))
           => \E r \in Rules : Contains(r, arg) /\ inserted[r] = ret

\* C6 amended: with wildcard-port rules only, the packets of one address
\* pair all get the same result, which is None or the action last inserted
\* for a rule whose prefixes contain the addresses.
C6_WildcardMatchesAnyPort ==
    (Matched /\ AllWildcard) =>
        /\ PortsIrrelevant
        /\ ret # None
           => \E r \in Rules : Contains(r, arg) /\ inserted[r] = ret

\* a packet with two explicit ports got the action of a wildcard-port rule
\* of a table of two such rules
C6_Witness ==
    /\ Matched /\ AllWildcard
    /\ Cardinality(Rules) = 2
    /\ arg.src_port # 0 /\ arg.dst_port # 0
    /\ ret # None

(* ------------------------------ C7 ------------------------------------- *)

\* C7: classification is pure. match_flow leaves the source index, the
\* destination index and the exact table as they were, and the table stays
\* the only owner of its maps, so a later add_flow can insert.
C7_ClassificationIsPure ==
    [][ op' = "match_flow" =>
            /\ src_map' = src_map
            /\ dst_map' = dst_map
            /\ flow_map' = flow_map
            /\ strong_count' = 1
      ]_vars

\* a packet was classified against a table of two rules and got an action
C7_Witness ==
    /\ Matched
    /\ Cardinality(DOMAIN flow_map) = 2
    /\ ret # None

(* ------------------------------ C8 ------------------------------------- *)

\* the exact-table result of one step: None unless both lookups resolve
StepHit(fm, s, d) ==
    IF s # None /\ d # None THEN flow_map_get(fm, s, d) ELSE None

\* the first exact-table hit of the four steps, in their order
FirstHit(sm, dm, fm, p) ==
    LET ss == get_net_port(p.src_ip, p.src_port, sm)
        ds == get_net_port(p.dst_ip, p.dst_port, dm)
        s0 == get_net_port(p.src_ip, 0, sm)
        d0 == get_net_port(p.dst_ip, 0, dm)
    IN  IF StepHit(fm, ss, ds) # None THEN StepHit(fm, ss, ds)
        ELSE IF StepHit(fm, s0, ds) # None THEN StepHit(fm, s0, ds)
        ELSE IF StepHit(fm, ss, d0) # None THEN StepHit(fm, ss, d0)
        ELSE StepHit(fm, s0, d0)

\* C8: cascade fall-through. A step returns only with an exact-table hit;
\* when its exact-table lookup misses the next step is tried, so match_flow
\* returns the hit of the first step that has one, and None only if no step
\* has one.
C8_CascadeFallThrough ==
    Matched => ret = FirstHit(src_map, dst_map, flow_map, arg)

(* ------------------------------ C9 ------------------------------------- *)

\* the prefixes registered on the source side for port q that contain ip
SrcCandidates(ip, q) ==
    {r.src_net : r \in {x \in Rules : x.src_port = q /\ InPrefix(ip, x.src_net)}}

\* the prefixes registered on the destination side for port q that contain ip
DstCandidates(ip, q) ==
    {r.dst_net : r \in {x \in Rules : x.dst_port = q /\ InPrefix(ip, x.dst_net)}}

\* net is as long as every prefix of the set
MostSpecific(net, nets) == net \in nets /\ \A n \in nets : n.len <= net.len

\* C9: greedy independent pairing. An action match_flow returns is that of
\* the rule inserted for the pair of the most specific registered source
\* prefix and the most specific registered destination prefix, each found
\* alone for the port tried; with a catch-all rule and one rule of longer
\* prefixes, a packet whose source is inside and whose destination is
\* outside the longer prefixes gets None.
C9_GreedyPairing ==
    Matched =>
        /\ ret # None =>
             \E r \in Rules :
                /\ inserted[r] = ret
                /\ r.src_port \in {arg.src_port, 0}
                /\ r.dst_port \in {arg.dst_port, 0}
                /\ MostSpecific(r.src_net, SrcCandidates(arg.src_ip, r.src_port))
                /\ MostSpecific(r.dst_net, DstCandidates(arg.dst_ip, r.dst_port))
        /\ \A c \in Rules : \A s \in Rules :
             ( /\ Rules = {c, s}
               /\ IsCatchAll(c)
               /\ s.src_net.len > 0 /\ s.dst_net.len > 0
               /\ s.src_port = c.src_port /\ s.dst_port = c.dst_port
               /\ InPrefix(arg.src_ip, s.src_net)
               /\ ~InPrefix(arg.dst_ip, s.dst_net) )
             => ret = None

(* ------------------------------ C10 ------------------------------------ *)

\* net has no bit set below the prefix whose wildcard mask is key
Masked(net, key) == net % (key + 1) = 0

\* C10: insertion stores masked addresses. Every network address kept in
\* the source index, the destination index and the keys of the exact table
\* is the rule's address with the bits below its prefix length cleared.
\* A table of one rule therefore gives the rule's action to every packet
\* the rule covers.
C10_StoredNetsMasked ==
    /\ \A k \in DOMAIN src_map : \A e \in src_map[k] : Masked(e[1], k)
    /\ \A k \in DOMAIN dst_map : \A e \in dst_map[k] : Masked(e[1], k)
    /\ \A k \in DOMAIN flow_map :
          Masked(k[1], MaxMask - k[2]) /\ Masked(k[4], MaxMask - k[5])
    /\ Matched =>
          \A r \in Rules : (Rules = {r} /\ Covers(r, arg)) => ret = inserted[r]

====
